---- MODULE Spec2Model ----
(***************************************************************************)
(* A model of ProposalTools/Checks/diff.py: DiffCheck resolves every       *)
(* remote source file of a proposal to a file of the local checkout        *)
(* (customer_folder/modules) by progressive suffix narrowing, diffs the    *)
(* pair with difflib.unified_diff and writes <stem>.patch files into the   *)
(* check folder.                                                           *)
(*                                                                         *)
(* Paths are sequences of segments, texts are sequences of characters,     *)
(* a line is a sequence of characters, a diff document is a sequence of    *)
(* string tokens.                                                          *)
(***************************************************************************)
EXTENDS Integers, Sequences, FiniteSets, TLC

VARIABLES
    repoExists,        \* customer_folder/modules is a directory
    tree,              \* the files below customer_folder/modules (relative paths)
    source_codes,      \* self.source_codes: the remote entries, in input order
    check_folder,      \* the artifact files of self.check_folder: name -> text
    missing_files,     \* local of __find_diffs
    files_with_diffs,  \* local of __find_diffs
    idx,               \* position of the for loop of __find_diffs (1-based)
    pc,                \* "loop", "returned" (execute_check returned), "raised"
    report,            \* <<>> or <<the tuple execute_check returned>>
    outcome,           \* history: per processed entry "missing", "clean", "diff"
    ioLog,             \* history: filesystem reads and writes of this run, in order
    prevReport,        \* history: <<>> or <<the report of the previous run>>
    prevFolder         \* history: check_folder as the previous run left it

vars == <<repoExists, tree, source_codes, check_folder, missing_files,
          files_with_diffs, idx, pc, report, outcome, ioLog, prevReport, prevFolder>>

(***************************************************************************)
(* Bounds of the model.                                                    *)
(***************************************************************************)
MaxEntries == 2

\* characters and lines
A == <<"a">>
B == <<"b">>

\* The files a local tree may hold (any subset), relative to the repo root.
\* out/c.sol/c.json makes out/c.sol a DIRECTORY named like a source file
\* (the layout of a compiler's artifact folder).
LocalFiles ==
    { <<"x", "a", "c.sol">>, <<"y", "a", "c.sol">>, <<"y", "c.sol">>,
      <<"x", "d.sol">>, <<"out", "c.sol", "c.json">> }

\* The text of each local file (what read_text returns when it succeeds).
LocalText(f) ==
    CASE f = <<"x", "a", "c.sol">> -> <<"a", "\n", "b", "\n">>
      [] f = <<"y", "a", "c.sol">> -> <<"b", "\n", "a">>
      [] f = <<"y", "c.sol">>      -> <<"a">>
      [] f = <<"x", "d.sol">>      -> <<>>
      [] OTHER                     -> <<"b", "\n">>

\* The declared (remote) paths and contents an entry may carry.
DeclaredPaths == { <<"a", "c.sol">>, <<"y", "c.sol">>, <<"d.sol">> }
RemoteContents == { <<A>>, <<A, B>> }

SourceCode == [file_name : DeclaredPaths, file_content : RemoteContents]

RECURSIVE SeqsUpTo(_, _)
SeqsUpTo(S, n) ==
    IF n = 0 THEN { <<>> }
    ELSE LET shorter == SeqsUpTo(S, n - 1)
         IN  shorter \cup { Append(s, e) : s \in { t \in shorter : Len(t) = n - 1 }, e \in S }

(***************************************************************************)
(* pathlib                                                                 *)
(***************************************************************************)
None == <<>>

\* the repo root, customer_folder / "modules"
target_repo == <<"modules">>

\* every file and every directory below the root (rglob yields both)
Entries(t) == UNION { { SubSeq(f, 1, k) : k \in 1..Len(f) } : f \in t }

IsFile(t, e) == e \in t

\* Path.glob in place of Path.rglob: only the entry that is the pattern
rglob_NotRecursive(exists, t, pattern) ==
    IF ~exists THEN {} ELSE { e \in Entries(t) : e = pattern }

\* Path.rglob(pattern): the entries whose trailing segments are the pattern's
\* (none of the names holds a glob metacharacter); nothing when the root is
\* no directory.
rglob(exists, t, pattern) ==
    IF ~exists THEN {}
    ELSE { e \in Entries(t) :
             /\ Len(e) >= Len(pattern)
             /\ SubSeq(e, Len(e) - Len(pattern) + 1, Len(e)) = pattern }

\* PurePath.stem: the final component without its last suffix
Stem(name) ==
    CASE name = "c.sol"  -> "c"
      [] name = "d.sol"  -> "d"
      [] name = "c.json" -> "c"
      [] OTHER           -> name

stem(p) == Stem(p[Len(p)])

\* str(path): the segments joined by "/"
RECURSIVE PathStr(_)
PathStr(p) ==
    IF Len(p) = 0 THEN <<>>
    ELSE IF Len(p) = 1 THEN <<p[1]>>
    ELSE <<p[1], "/">> \o PathStr(Tail(p))

(***************************************************************************)
(* DiffCheck.__find_most_common_path                                       *)
(***************************************************************************)
\* range(len(parts) - 1): the bare filename is never tried
RECURSIVE narrow_StopsEarly(_, _, _, _)
narrow_StopsEarly(exists, t, source_path, i) ==
    IF i >= Len(source_path) THEN [at |-> 0, file |-> None]
    ELSE LET current_source_path == SubSeq(source_path, i, Len(source_path))
             local_files == rglob(exists, t, current_source_path)
         IN  IF Cardinality(local_files) = 1
             THEN [at |-> i, file |-> CHOOSE f \in local_files : TRUE]
             ELSE narrow_StopsEarly(exists, t, source_path, i + 1)

\* the loop from iteration i on: the first suffix parts[i:] with exactly one
\* match returns that match; i is kept beside the result (1-based)
RECURSIVE narrow(_, _, _, _)
narrow(exists, t, source_path, i) ==
    IF i > Len(source_path) THEN [at |-> 0, file |-> None]
    ELSE LET current_source_path == SubSeq(source_path, i, Len(source_path))
             local_files == rglob(exists, t, current_source_path)
         IN  IF Cardinality(local_files) = 1
             THEN [at |-> i, file |-> CHOOSE f \in local_files : TRUE]
             ELSE narrow(exists, t, source_path, i + 1)

find_most_common_path(exists, t, source_path) == narrow(exists, t, source_path, 1).file

(***************************************************************************)
(* str.splitlines                                                          *)
(***************************************************************************)
RECURSIVE SplitFrom(_, _, _)
SplitFrom(text, k, line) ==
    IF k > Len(text) THEN (IF line = <<>> THEN <<>> ELSE <<line>>)
    ELSE IF text[k] = "\n" THEN <<line>> \o SplitFrom(text, k + 1, <<>>)
    ELSE SplitFrom(text, k + 1, Append(line, text[k]))

splitlines(text) == SplitFrom(text, 1, <<>>)

(***************************************************************************)
(* difflib.SequenceMatcher (no junk; autojunk needs 200 lines or more)     *)
(* Indices are Python's: 0-based, half-open.                               *)
(***************************************************************************)
ContextLines == 3

Min(x, y) == IF x <= y THEN x ELSE y
Max(x, y) == IF x >= y THEN x ELSE y

\* the longest block a[i:i+k] = b[j:j+k] inside the windows; of those the one
\* starting earliest in a, and of those the one starting earliest in b
find_longest_match(a, alo, ahi, b, blo, bhi) ==
    LET cands == { c \in (alo..(ahi - 1)) \X (blo..(bhi - 1)) \X (1..(ahi - alo)) :
                     /\ c[1] + c[3] <= ahi
                     /\ c[2] + c[3] <= bhi
                     /\ \A d \in 0..(c[3] - 1) : a[c[1] + d + 1] = b[c[2] + d + 1] }
        Before(c, o) == \/ c[3] > o[3]
                        \/ c[3] = o[3] /\ c[1] < o[1]
                        \/ c[3] = o[3] /\ c[1] = o[1] /\ c[2] <= o[2]
    IN  IF cands = {} THEN <<alo, blo, 0>>
        ELSE CHOOSE c \in cands : \A o \in cands : Before(c, o)

RECURSIVE MatchIn(_, _, _, _, _, _)
MatchIn(a, alo, ahi, b, blo, bhi) ==
    LET m == find_longest_match(a, alo, ahi, b, blo, bhi)
    IN  IF m[3] = 0 THEN <<>>
        ELSE (IF alo < m[1] /\ blo < m[2]
              THEN MatchIn(a, alo, m[1], b, blo, m[2]) ELSE <<>>)
             \o <<m>> \o
             (IF m[1] + m[3] < ahi /\ m[2] + m[3] < bhi
              THEN MatchIn(a, m[1] + m[3], ahi, b, m[2] + m[3], bhi) ELSE <<>>)

\* adjacent blocks are merged
RECURSIVE Collapse(_, _, _)
Collapse(blocks, k, cur) ==
    IF k > Len(blocks) THEN (IF cur[3] # 0 THEN <<cur>> ELSE <<>>)
    ELSE LET nxt == blocks[k]
         IN  IF cur[1] + cur[3] = nxt[1] /\ cur[2] + cur[3] = nxt[2]
             THEN Collapse(blocks, k + 1, <<cur[1], cur[2], cur[3] + nxt[3]>>)
             ELSE (IF cur[3] # 0 THEN <<cur>> ELSE <<>>) \o Collapse(blocks, k + 1, nxt)

get_matching_blocks(a, b) ==
    Append(Collapse(MatchIn(a, 0, Len(a), b, 0, Len(b)), 1, <<0, 0, 0>>),
           <<Len(a), Len(b), 0>>)

RECURSIVE OpcodesFrom(_, _, _, _)
OpcodesFrom(blocks, k, i, j) ==
    IF k > Len(blocks) THEN <<>>
    ELSE LET ai == blocks[k][1]
             bj == blocks[k][2]
             size == blocks[k][3]
             tag == IF i < ai /\ j < bj THEN "replace"
                    ELSE IF i < ai THEN "delete"
                    ELSE IF j < bj THEN "insert"
                    ELSE ""
         IN  (IF tag # "" THEN << <<tag, i, ai, j, bj>> >> ELSE <<>>)
             \o (IF size # 0 THEN << <<"equal", ai, ai + size, bj, bj + size>> >> ELSE <<>>)
             \o OpcodesFrom(blocks, k + 1, ai + size, bj + size)

get_opcodes(a, b) == OpcodesFrom(get_matching_blocks(a, b), 1, 0, 0)

RECURSIVE GroupFrom(_, _, _, _)
GroupFrom(codes, k, group, n) ==
    IF k > Len(codes)
    THEN (IF group # <<>> /\ ~(Len(group) = 1 /\ group[1][1] = "equal")
          THEN <<group>> ELSE <<>>)
    ELSE LET c == codes[k]
         IN  IF c[1] = "equal" /\ c[3] - c[2] > n + n
             THEN <<Append(group, <<"equal", c[2], Min(c[3], c[2] + n),
                                             c[4], Min(c[5], c[4] + n)>>)>>
                  \o GroupFrom(codes, k + 1,
                               << <<"equal", Max(c[2], c[3] - n), c[3],
                                             Max(c[4], c[5] - n), c[5]>> >>, n)
             ELSE GroupFrom(codes, k + 1, Append(group, c), n)

\* the leading and the trailing 'equal' opcode keep at most n lines
TrimFirst(codes, n) ==
    LET f == codes[1]
    IN  IF f[1] = "equal"
        THEN [codes EXCEPT ![1] = <<"equal", Max(f[2], f[3] - n), f[3],
                                             Max(f[4], f[5] - n), f[5]>>]
        ELSE codes

TrimLast(codes, n) ==
    LET l == codes[Len(codes)]
    IN  IF l[1] = "equal"
        THEN [codes EXCEPT ![Len(codes)] = <<"equal", l[2], Min(l[3], l[2] + n),
                                                      l[4], Min(l[5], l[4] + n)>>]
        ELSE codes

OrDummy(codes) == IF codes = <<>> THEN << <<"equal", 0, 1, 0, 1>> >> ELSE codes

get_grouped_opcodes(a, b, n) ==
    GroupFrom(TrimLast(TrimFirst(OrDummy(get_opcodes(a, b)), n), n), 1, <<>>, n)

(***************************************************************************)
(* difflib.unified_diff, called with the default lineterm "\n" and n = 3   *)
(***************************************************************************)
Str(n) ==
    CASE n = 0 -> "0" [] n = 1 -> "1" [] n = 2 -> "2" [] n = 3 -> "3"
      [] n = 4 -> "4" [] n = 5 -> "5" [] n = 6 -> "6" [] OTHER -> "7"

format_range_unified(start, stop) ==
    LET length == stop - start
    IN  IF length = 1 THEN <<Str(start + 1)>>
        ELSE IF length = 0 THEN <<Str(start), ",", Str(length)>>
        ELSE <<Str(start + 1), ",", Str(length)>>

RECURSIVE Prefixed(_, _, _, _)
Prefixed(prefix, lines, lo, hi) ==
    IF lo >= hi THEN <<>>
    ELSE << <<prefix>> \o lines[lo + 1] >> \o Prefixed(prefix, lines, lo + 1, hi)

RECURSIVE GroupLines(_, _, _, _)
GroupLines(a, b, group, k) ==
    IF k > Len(group) THEN <<>>
    ELSE LET c == group[k]
         IN  (IF c[1] = "equal" THEN Prefixed(" ", a, c[2], c[3])
              ELSE (IF c[1] \in {"replace", "delete"} THEN Prefixed("-", a, c[2], c[3]) ELSE <<>>)
                   \o (IF c[1] \in {"replace", "insert"} THEN Prefixed("+", b, c[4], c[5]) ELSE <<>>))
             \o GroupLines(a, b, group, k + 1)

RECURSIVE HunksFrom(_, _, _, _)
HunksFrom(a, b, groups, k) ==
    IF k > Len(groups) THEN <<>>
    ELSE LET group == groups[k]
             first == group[1]
             last == group[Len(group)]
         IN  << <<"@@ -">> \o format_range_unified(first[2], last[3]) \o <<" +">>
                    \o format_range_unified(first[4], last[5]) \o <<" @@", "\n">> >>
             \o GroupLines(a, b, group, 1)
             \o HunksFrom(a, b, groups, k + 1)

\* the lines unified_diff yields: nothing when a = b
unified_diff(a, b, fromfile, tofile) ==
    LET groups == get_grouped_opcodes(a, b, ContextLines)
    IN  IF groups = <<>> THEN <<>>
        ELSE << <<"--- ">> \o fromfile \o <<"\n">>, <<"+++ ">> \o tofile \o <<"\n">> >>
             \o HunksFrom(a, b, groups, 1)

\* '\n'.join(lines)
RECURSIVE join(_)
join(lines) ==
    IF lines = <<>> THEN <<>>
    ELSE IF Len(lines) = 1 THEN lines[1]
    ELSE lines[1] \o <<"\n">> \o join(Tail(lines))

(***************************************************************************)
(* DiffCheck.__find_diffs, one loop iteration per step                     *)
(***************************************************************************)
EmptyFolder == [n \in {} |-> <<>>]

\* self.check_folder, as it prints
check_folder_path == <<"check_folder">>

\* the loop's locals for the entry source_code
local_file_of(source_code) == find_most_common_path(repoExists, tree, source_code.file_name)

local_content_of(local_file) == splitlines(LocalText(local_file))

diff_text_of(source_code, local_file) ==
    join(unified_diff(local_content_of(local_file), source_code.file_content,
                      PathStr(target_repo \o local_file), PathStr(source_code.file_name)))

\* f"{local_file.stem}.patch"
patch_name(local_file) == <<stem(local_file), ".patch">>

Compared(source_code, local_file) ==
    [local_file    |-> PathStr(target_repo \o local_file),
     proposal_file |-> PathStr(source_code.file_name),
     diff          |-> check_folder_path \o <<"/">> \o patch_name(local_file)]

\* open(diff_file_path, "x"): a file that exists is kept
WriteFile_KeepExisting(folder, name, text) ==
    [n \in DOMAIN folder \cup {name} |-> IF n \in DOMAIN folder THEN folder[n] ELSE text]

\* open(diff_file_path, "a"): the text is appended to a file that exists
WriteFile_Append(folder, name, text) ==
    [n \in DOMAIN folder \cup {name} |->
        IF n # name THEN folder[n]
        ELSE IF n \in DOMAIN folder THEN folder[n] \o text ELSE text]

\* open(diff_file_path, "w") followed by write(diff_text)
WriteFile(folder, name, text) ==
    [n \in DOMAIN folder \cup {name} |-> IF n = name THEN text ELSE folder[n]]

Looping == pc = "loop" /\ idx <= Len(source_codes)

Init ==
    /\ repoExists \in BOOLEAN
    /\ tree \in SUBSET LocalFiles
    /\ (~repoExists => tree = {})
    /\ source_codes \in SeqsUpTo(SourceCode, MaxEntries)
    /\ check_folder = EmptyFolder
    /\ missing_files = <<>>
    /\ files_with_diffs = <<>>
    /\ idx = 1
    /\ pc = "loop"
    /\ report = <<>>
    /\ outcome = <<>>
    /\ ioLog = <<>>
    /\ prevReport = <<>>
    /\ prevFolder = EmptyFolder

\* the unmatched entry is skipped without being recorded
RecordMissing_Dropped ==
    /\ pc = "loop" /\ idx <= Len(source_codes)
    /\ find_most_common_path(repoExists, tree, source_codes[idx].file_name) = None
    /\ outcome' = Append(outcome, "missing")
    /\ idx' = idx + 1
    /\ UNCHANGED <<repoExists, tree, source_codes, check_folder, missing_files,
                   files_with_diffs, pc, report, ioLog, prevReport, prevFolder>>

\* lines 108-111: no local file, the entry is recorded as missing
RecordMissing ==
    /\ Looping
    /\ local_file_of(source_codes[idx]) = None
    /\ missing_files' = Append(missing_files, source_codes[idx])
    /\ outcome' = Append(outcome, "missing")
    /\ idx' = idx + 1
    /\ UNCHANGED <<repoExists, tree, source_codes, check_folder, files_with_diffs,
                   pc, report, ioLog, prevReport, prevFolder>>

\* the read error is caught and the entry recorded as missing
ReadFails_Swallowed ==
    /\ pc = "loop" /\ idx <= Len(source_codes)
    /\ find_most_common_path(repoExists, tree, source_codes[idx].file_name) # None
    /\ ioLog' = Append(ioLog, [op |-> "read", idx |-> idx, ok |-> FALSE,
                               path |-> find_most_common_path(repoExists, tree,
                                                              source_codes[idx].file_name)])
    /\ missing_files' = Append(missing_files, source_codes[idx])
    /\ outcome' = Append(outcome, "missing")
    /\ idx' = idx + 1
    /\ UNCHANGED <<repoExists, tree, source_codes, check_folder, files_with_diffs,
                   pc, report, prevReport, prevFolder>>

\* line 113 raises: read_text of a directory always does, of a file it may
ReadFails ==
    /\ Looping
    /\ local_file_of(source_codes[idx]) # None
    /\ ioLog' = Append(ioLog, [op |-> "read", idx |-> idx, ok |-> FALSE,
                               path |-> local_file_of(source_codes[idx])])
    /\ pc' = "raised"
    /\ UNCHANGED <<repoExists, tree, source_codes, check_folder, missing_files,
                   files_with_diffs, idx, report, outcome, prevReport, prevFolder>>

\* the patch file is written without the test of line 119
CompareClean_WritesPatch ==
    /\ pc = "loop" /\ idx <= Len(source_codes)
    /\ LET source_code == source_codes[idx]
           local_file == find_most_common_path(repoExists, tree, source_code.file_name)
       IN  /\ local_file # None
           /\ local_file \in tree
           /\ splitlines(LocalText(local_file)) = source_code.file_content
           /\ check_folder' = [n \in DOMAIN check_folder \cup {<<stem(local_file), ".patch">>} |->
                                 IF n = <<stem(local_file), ".patch">> THEN <<>>
                                 ELSE check_folder[n]]
           /\ ioLog' = Append(ioLog, [op |-> "read", idx |-> idx, ok |-> TRUE,
                                      path |-> local_file])
    /\ outcome' = Append(outcome, "clean")
    /\ idx' = idx + 1
    /\ UNCHANGED <<repoExists, tree, source_codes, missing_files,
                   files_with_diffs, pc, report, prevReport, prevFolder>>

\* Compared is appended without the test of line 119
CompareClean_AppendsCompared ==
    /\ pc = "loop" /\ idx <= Len(source_codes)
    /\ LET source_code == source_codes[idx]
           local_file == find_most_common_path(repoExists, tree, source_code.file_name)
       IN  /\ local_file # None
           /\ local_file \in tree
           /\ splitlines(LocalText(local_file)) = source_code.file_content
           /\ files_with_diffs' = Append(files_with_diffs,
                 [local_file    |-> PathStr(target_repo \o local_file),
                  proposal_file |-> PathStr(source_code.file_name),
                  diff          |-> <<"check_folder", "/", stem(local_file), ".patch">>])
           /\ ioLog' = Append(ioLog, [op |-> "read", idx |-> idx, ok |-> TRUE,
                                      path |-> local_file])
    /\ outcome' = Append(outcome, "clean")
    /\ idx' = idx + 1
    /\ UNCHANGED <<repoExists, tree, source_codes, check_folder, missing_files,
                   pc, report, prevReport, prevFolder>>

\* lines 113-119: the file is read and the diff is empty
CompareClean ==
    /\ Looping
    /\ LET source_code == source_codes[idx]
           local_file == local_file_of(source_code)
       IN  /\ local_file # None
           /\ IsFile(tree, local_file)
           /\ diff_text_of(source_code, local_file) = <<>>
           /\ ioLog' = Append(ioLog, [op |-> "read", idx |-> idx, ok |-> TRUE,
                                      path |-> local_file])
    /\ outcome' = Append(outcome, "clean")
    /\ idx' = idx + 1
    /\ UNCHANGED <<repoExists, tree, source_codes, check_folder, missing_files,
                   files_with_diffs, pc, report, prevReport, prevFolder>>

\* lines 113-123: the diff is not empty; Compared is appended, the patch written
CompareDiff ==
    /\ Looping
    /\ LET source_code == source_codes[idx]
           local_file == local_file_of(source_code)
           diff_text == diff_text_of(source_code, local_file)
       IN  /\ local_file # None
           /\ IsFile(tree, local_file)
           /\ diff_text # <<>>
           /\ files_with_diffs' = Append(files_with_diffs, Compared(source_code, local_file))
           /\ check_folder' = WriteFile(check_folder, patch_name(local_file), diff_text)
           /\ ioLog' = ioLog \o
                <<[op |-> "read", idx |-> idx, ok |-> TRUE, path |-> local_file],
                  [op |-> "write", idx |-> idx, ok |-> TRUE, path |-> patch_name(local_file)]>>
    /\ outcome' = Append(outcome, "diff")
    /\ idx' = idx + 1
    /\ UNCHANGED <<repoExists, tree, source_codes, missing_files, pc, report,
                   prevReport, prevFolder>>

\* lines 121-123: Compared is appended, then open() raises (the folder is
\* untouched) or write() raises after open() truncated the file
WriteFails ==
    /\ Looping
    /\ LET source_code == source_codes[idx]
           local_file == local_file_of(source_code)
       IN  /\ local_file # None
           /\ IsFile(tree, local_file)
           /\ diff_text_of(source_code, local_file) # <<>>
           /\ files_with_diffs' = Append(files_with_diffs, Compared(source_code, local_file))
           /\ \E truncated \in BOOLEAN :
                check_folder' = IF truncated
                                THEN WriteFile(check_folder, patch_name(local_file), <<>>)
                                ELSE check_folder
           /\ ioLog' = ioLog \o
                <<[op |-> "read", idx |-> idx, ok |-> TRUE, path |-> local_file],
                  [op |-> "write", idx |-> idx, ok |-> FALSE, path |-> patch_name(local_file)]>>
    /\ pc' = "raised"
    /\ UNCHANGED <<repoExists, tree, source_codes, missing_files, idx, report, outcome,
                   prevReport, prevFolder>>

\* lines 125, 57-58: the loop is over; the results are printed and returned
Return ==
    /\ pc = "loop"
    /\ idx > Len(source_codes)
    /\ report' = << [missing_files |-> missing_files, files_with_diffs |-> files_with_diffs] >>
    /\ pc' = "returned"
    /\ UNCHANGED <<repoExists, tree, source_codes, check_folder, missing_files,
                   files_with_diffs, idx, outcome, ioLog, prevReport, prevFolder>>

\* execute_check is called again on the same object: same entries, same tree,
\* the check folder as the run before left it
Rerun ==
    /\ pc = "returned"
    /\ prevReport' = report
    /\ prevFolder' = check_folder
    /\ missing_files' = <<>>
    /\ files_with_diffs' = <<>>
    /\ idx' = 1
    /\ pc' = "loop"
    /\ report' = <<>>
    /\ outcome' = <<>>
    /\ ioLog' = <<>>
    /\ UNCHANGED <<repoExists, tree, source_codes, check_folder>>

Next ==
    \/ RecordMissing
    \/ ReadFails
    \/ CompareClean
    \/ CompareDiff
    \/ WriteFails
    \/ Return
    \/ Rerun

Spec == Init /\ [][Next]_vars

(***************************************************************************)
(* What the claims speak of, stated without the loop                       *)
(***************************************************************************)
Idxs(n) == [i \in 1..n |-> i]

\* parts[i:] of a declared path (i is 1-based)
Suffix(path, i) == SubSeq(path, i, Len(path))

\* what the search finds for parts[i:]: files and directories
Matches(path, i) == rglob(repoExists, tree, Suffix(path, i))

UniqueAt(path) == { i \in 1..Len(path) : Cardinality(Matches(path, i)) = 1 }

Resolved(i) == local_file_of(source_codes[i])

\* the case of entry i: unmatched, matched to a directory, matched to a file
\* with the same lines, matched to a file with other lines
Class(i) ==
    LET r == Resolved(i)
    IN  IF r = None THEN "missing"
        ELSE IF ~IsFile(tree, r) THEN "directory"
        ELSE IF splitlines(LocalText(r)) = source_codes[i].file_content THEN "clean"
        ELSE "diff"

IdxOf(n, class) == SelectSeq(Idxs(n), LAMBDA i : Class(i) = class)

Count(n, class) == Len(IdxOf(n, class))

Writes == SelectSeq(ioLog, LAMBDA e : e.op = "write")

Processed == idx - 1

\* C1: a run that completes puts every entry in exactly one bucket: the
\* missing list holds exactly the unmatched entries, files_with_diffs one
\* Compared per matched entry whose lines differ, the other entries are
\* clean, so the three counts add up to N; and no unmatched entry is ever
\* read or diffed.
C1_Partition ==
    /\ \A k \in 1..Len(ioLog) : Class(ioLog[k].idx) # "missing"
    /\ pc = "returned" =>
         LET N == Len(source_codes)
             r == report[1]
             m == IdxOf(N, "missing")
             d == IdxOf(N, "diff")
         IN  /\ r.missing_files = [k \in 1..Len(m) |-> source_codes[m[k]]]
             /\ r.files_with_diffs =
                   [k \in 1..Len(d) |-> Compared(source_codes[d[k]], Resolved(d[k]))]
             /\ outcome = [i \in 1..N |-> Class(i)]
             /\ Len(r.missing_files) + Len(r.files_with_diffs) + Count(N, "clean") = N

C1_Witness ==
    /\ pc = "returned"
    /\ Len(source_codes) = 2
    /\ Len(report[1].missing_files) = 1
    /\ Len(report[1].files_with_diffs) = 1

\* C2: a resolution that succeeds returns a local FILE, the single match of
\* the longest suffix of the declared path that has exactly one match.
C2_LongestUniqueFile ==
    \A k \in 1..Len(source_codes) :
        LET path == source_codes[k].file_name
        IN  (k <= Processed \/ \E n \in 1..Len(ioLog) : ioLog[n].idx = k) =>
              (UniqueAt(path) # {} =>
                 /\ Resolved(k) \in Matches(path, CHOOSE i \in UniqueAt(path) :
                                                     \A j \in UniqueAt(path) : i <= j)
                 /\ IsFile(tree, Resolved(k)))

C4_MissingRootIsFatal ==
    ~repoExists => ~(pc = "returned" /\ report[1].missing_files # <<>>)

\* the folder the writes of the entries d[1..k] leave, from `folder`
RECURSIVE FolderAfter(_, _, _)
FolderAfter(folder, d, k) ==
    IF k = 0 THEN folder
    ELSE LET r == Resolved(d[k])
         IN  WriteFile(FolderAfter(folder, d, k - 1), patch_name(r),
                       diff_text_of(source_codes[d[k]], r))

\* C5: a Compared is produced and an artifact written exactly for the entries
\* that resolved to a file whose lines differ from the remote lines: one
\* Compared and one write to <stem>.patch each, in order, the Compared naming
\* the written path; nothing else changes the check folder.
C5_ComparedIffDivergent ==
    LET failed == pc = "raised" /\ ioLog[Len(ioLog)].op = "write"
        done == IdxOf(Processed, "diff")
        d == IF failed THEN Append(done, idx) ELSE done
    IN  /\ \A k \in 1..Len(d) : Class(d[k]) = "diff"
        /\ Len(files_with_diffs) = Len(d)
        /\ Len(Writes) = Len(d)
        /\ \A k \in 1..Len(d) :
              /\ files_with_diffs[k] = Compared(source_codes[d[k]], Resolved(d[k]))
              /\ Writes[k] = [op |-> "write", idx |-> d[k], ok |-> ~(failed /\ k = Len(d)),
                              path |-> patch_name(Resolved(d[k]))]
              /\ files_with_diffs[k].diff = check_folder_path \o <<"/">> \o Writes[k].path
        /\ LET written == FolderAfter(prevFolder, done, Len(done))
           IN  IF failed
               THEN check_folder \in
                       { written, WriteFile(written, patch_name(Resolved(idx)), <<>>) }
               ELSE check_folder = written

C5_Witness ==
    /\ pc = "returned"
    /\ outcome = <<"diff", "clean">>
    /\ Cardinality(DOMAIN check_folder) = 1

\* C6: an entry that resolved to a file whose lines are the remote lines
\* leaves files_with_diffs, missing_files and the check folder unchanged.
C6_IdenticalIsNoOp ==
    [][(Looping /\ Class(idx) = "clean") =>
          UNCHANGED <<files_with_diffs, missing_files, check_folder>>]_vars

\* a clean entry was processed after a patch had been written
C6_Witness ==
    /\ Len(outcome) = 2
    /\ outcome[2] = "clean"
    /\ DOMAIN check_folder # {}
    /\ files_with_diffs # <<>>

\* C7: a failed read or write aborts the run: nothing is returned, no step
\* follows, the failing entry has no outcome and is in no returned bucket;
\* and a report that is returned accounts for every entry.
C7_FailureAborts ==
    /\ (\E n \in 1..Len(ioLog) : ~ioLog[n].ok) =>
          /\ pc = "raised"
          /\ report = <<>>
          /\ ~ENABLED Next
          /\ ~ioLog[Len(ioLog)].ok
          /\ ioLog[Len(ioLog)].idx = idx
          /\ Len(outcome) = idx - 1
          /\ \A n \in 1..(Len(ioLog) - 1) : ioLog[n].ok
    /\ pc = "raised" => ~ioLog[Len(ioLog)].ok
    /\ pc = "returned" =>
          /\ Len(outcome) = Len(source_codes)
          /\ \A n \in 1..Len(ioLog) : ioLog[n].ok

\* a write failed on the second entry, after the first was processed
C7_Witness ==
    /\ pc = "raised"
    /\ idx = 2
    /\ ioLog[Len(ioLog)].op = "write"

\* the last entry in input order, among the divergent ones, that writes `name`
LastWriter(name) ==
    CHOOSE i \in 1..Len(source_codes) :
        /\ Class(i) = "diff" /\ patch_name(Resolved(i)) = name
        /\ \A j \in 1..Len(source_codes) :
              (Class(j) = "diff" /\ patch_name(Resolved(j)) = name) => j <= i

\* C8: entries are processed in input order; divergent entries whose local
\* files share a stem write the same artifact, which after the run holds the
\* diff of the later entry, while files_with_diffs holds one Compared per
\* divergent entry; so there are as many artifacts as distinct stems.
C8_LaterWriteWins ==
    /\ \A n \in 1..(Len(ioLog) - 1) : ioLog[n].idx <= ioLog[n + 1].idx
    /\ Len(outcome) = Processed
    /\ pc = "returned" =>
          LET N == Len(source_codes)
              d == IdxOf(N, "diff")
          IN  /\ Len(files_with_diffs) = Len(d)
              /\ DOMAIN check_folder = { patch_name(Resolved(d[k])) : k \in 1..Len(d) }
              /\ Cardinality(DOMAIN check_folder) =
                    Cardinality({ stem(Resolved(d[k])) : k \in 1..Len(d) })
              /\ \A name \in DOMAIN check_folder :
                    check_folder[name] =
                       diff_text_of(source_codes[LastWriter(name)], Resolved(LastWriter(name)))
              /\ \A k \in 1..Len(d) :
                    files_with_diffs[k].diff =
                       check_folder_path \o <<"/">> \o patch_name(Resolved(d[k]))

\* two divergent entries with different local files of the same stem
C8_Witness ==
    /\ pc = "returned"
    /\ Len(files_with_diffs) = 2
    /\ files_with_diffs[1].diff = files_with_diffs[2].diff
    /\ files_with_diffs[1].local_file # files_with_diffs[2].local_file
    /\ Cardinality(DOMAIN check_folder) = 1

\* C9: a second run on the same entries and the same tree returns the same
\* missing list and the same Compared list as the first, and leaves the same
\* artifact files with the same contents.
C9_Idempotent ==
    (pc = "returned" /\ prevReport # <<>>) =>
        /\ report = prevReport
        /\ check_folder = prevFolder

C9_Witness ==
    /\ pc = "returned"
    /\ prevReport # <<>>
    /\ Len(report[1].files_with_diffs) = 2
    /\ Cardinality(DOMAIN check_folder) = 1

\* the suffixes the loop gets to: every longer one had no or several matches
Examined(path) ==
    { i \in 1..Len(path) : \A j \in 1..(i - 1) : Cardinality(Matches(path, j)) # 1 }

\* C10: the matches can only grow as the suffix shrinks; hence a result at
\* suffix i means every longer suffix had no match, and once a suffix the
\* loop examines has two or more matches the result is None (the entry is
\* recorded as missing).
C10_MatchesGrow ==
    \A k \in 1..Len(source_codes) :
        LET path == source_codes[k].file_name
            r == narrow(repoExists, tree, path, 1)
            several == \E i \in Examined(path) : Cardinality(Matches(path, i)) >= 2
        IN  /\ \A i \in 1..(Len(path) - 1) : Matches(path, i) \subseteq Matches(path, i + 1)
            /\ r.file # None => \A j \in 1..(r.at - 1) : Matches(path, j) = {}
            /\ several => r.file = None
            /\ (k <= Processed /\ several) => outcome[k] = "missing"

\* the full declared path had several matches, the narrowing went on to the
\* bare filename and the entry was recorded as missing
C10_Witness ==
    /\ Len(outcome) >= 1
    /\ outcome[1] = "missing"
    /\ Len(source_codes[1].file_name) = 2
    /\ Cardinality(Matches(source_codes[1].file_name, 1)) >= 2

====
